---------------------------- MODULE Spec2Model ----------------------------
(***************************************************************************)
(* A model of mistletoe's block-level tokens (mistletoe/block_token.py):   *)
(* the token registry and its two mutators, the dispatch of a run of lines *)
(* to the first matching token type, and the constructors of Heading,      *)
(* Quote, List, ListItem, Table, TableRow, TableCell, FootnoteBlock,       *)
(* FootnoteEntry, BlockCode, Separator, Paragraph and Document.            *)
(*                                                                         *)
(* A Python str is a sequence of one-character strings, so that indexing,  *)
(* slicing, split, strip and find are computed as Python computes them.    *)
(* Python indices are 0-based; where a definition takes or returns an      *)
(* index it is the Python index.  An exception is a record [type |-> its   *)
(* name]; a token is a record whose type field is the class name.          *)
(***************************************************************************)
EXTENDS Integers, Sequences, FiniteSets, TLC

VARIABLES
    token_types,   \* the module-level list _token_types
    pc,            \* the call that produced the current state
    arg,           \* the argument of that call
    ret,           \* what the call returned (a token, a list, or an exception)
    prev,          \* the call before that one: <<its pc, its arg>>
    calls,         \* how many calls have been made
    snapshot       \* _token_types as it was when the latest add_token was called

vars == <<token_types, pc, arg, ret, prev, calls, snapshot>>

-----------------------------------------------------------------------------
(* Python values *)

\* None, among the integers it alternates with (List.start, TableCell.align).
None == -1

Raise(name) == [type |-> name]

Exceptions == {"IndexError", "ValueError", "AttributeError"}

IsError(v) == v.type \in Exceptions

Min(S) == CHOOSE x \in S : \A y \in S : x <= y

Max(S) == CHOOSE x \in S : \A y \in S : x >= y

\* The characters str.strip() removes.
Whitespace == {" ", "\n"}

Digits == {"0", "1", "2", "3", "4", "5", "6", "7", "8", "9"}

FourSpaces == <<" ", " ", " ", " ">>

\* s.startswith(p)
StartsWith(s, p) == Len(s) >= Len(p) /\ SubSeq(s, 1, Len(p)) = p

\* s.find(p): the lowest Python index where p occurs in s, or -1
Find(s, p) ==
    LET at == {i \in 0..(Len(s) - Len(p)) : SubSeq(s, i + 1, i + Len(p)) = p}
    IN  IF at = {} THEN -1 ELSE Min(at)

\* s[n:]
From(s, n) == SubSeq(s, n + 1, Len(s))

\* s[:-1]
ButLast(s) == SubSeq(s, 1, Len(s) - 1)

\* s[1:-2]
Inner(s) == SubSeq(s, 2, Len(s) - 2)

\* s[-4:]
Last4(s) == SubSeq(s, Max({1, Len(s) - 3}), Len(s))

\* s.strip()
Strip(s) ==
    LET keep == {i \in 1..Len(s) : s[i] \notin Whitespace}
    IN  IF keep = {} THEN <<>> ELSE SubSeq(s, Min(keep), Max(keep))

\* s.isdigit()
IsDigit(s) == Len(s) > 0 /\ \A i \in 1..Len(s) : s[i] \in Digits

\* s.split(sep, 1): one part when sep does not occur, else the text before
\* the first occurrence and the text after it
Split1(s, sep) ==
    LET i == Find(s, sep)
    IN  IF i = -1 THEN <<s>>
        ELSE <<SubSeq(s, 1, i), From(s, i + Len(sep))>>

\* s.split(sep): split at every occurrence, left to right
RECURSIVE Split(_, _)
Split(s, sep) ==
    LET i == Find(s, sep)
    IN  IF i = -1 THEN <<s>>
        ELSE <<SubSeq(s, 1, i)>> \o Split(From(s, i + Len(sep)), sep)

\* sep.join(parts)
RECURSIVE Join(_, _)
Join(sep, parts) ==
    IF Len(parts) = 0 THEN <<>>
    ELSE IF Len(parts) = 1 THEN parts[1]
    ELSE parts[1] \o sep \o Join(sep, Tail(parts))

\* s.replace(a, b) for a single character a
Replace(s, a, b) == [i \in 1..Len(s) |-> IF s[i] = a THEN b ELSE s[i]]

\* int(s) for a string of digits
DigitValue(c) ==
    CASE c = "0" -> 0 [] c = "1" -> 1 [] c = "2" -> 2 [] c = "3" -> 3
      [] c = "4" -> 4 [] c = "5" -> 5 [] c = "6" -> 6 [] c = "7" -> 7
      [] c = "8" -> 8 [] c = "9" -> 9

RECURSIVE ParseInt(_)
ParseInt(s) ==
    IF Len(s) = 0 THEN 0
    ELSE 10 * ParseInt(ButLast(s)) + DigitValue(s[Len(s)])

\* All sequences over S of length at most n.
SeqUpTo(S, n) == UNION {[1..k -> S] : k \in 0..n}

-----------------------------------------------------------------------------
(* The registry *)

\* A registry that lists List before Separator.
ListBeforeSeparator ==
    <<"Heading", "Quote", "BlockCode", "List", "Separator", "Table",
      "FootnoteBlock">>

\* _token_types as the module defines it.
DefaultTokenTypes ==
    <<"Heading", "Quote", "BlockCode", "Separator", "List", "Table",
      "FootnoteBlock">>

\* list.insert(i, x): before Python index i, or at the end when the list is
\* shorter than i
ListInsert(l, i, x) ==
    LET k == IF i > Len(l) THEN Len(l) ELSE i
    IN  SubSeq(l, 1, k) \o <<x>> \o From(l, k)

\* x in l
Contains(l, x) == \E i \in 1..Len(l) : l[i] = x

\* A remove that drops the last occurrence instead of the first.
ListRemoveLast(l, x) ==
    LET at == Max({i \in 1..Len(l) : l[i] = x})
    IN  SubSeq(l, 1, at - 1) \o From(l, at)

\* list.remove(x) for x in l: drops the first occurrence
ListRemove(l, x) ==
    LET at == Min({i \in 1..Len(l) : l[i] = x})
    IN  SubSeq(l, 1, at - 1) \o From(l, at)

\* The token classes: the seven built-in ones and one an extension defines.
TokenClasses ==
    {"Heading", "Quote", "BlockCode", "Separator", "List", "Table",
     "FootnoteBlock", "Custom"}

\* The classes the model registers: a new one, the one at index 0 and one
\* further down the list.
Registered == {"Custom", "Heading", "List"}

\* The calls the model follows from its initial registry.
MaxCalls == 2

\* Every list remove_token calls alone make of l.
RECURSIVE Removals(_)
Removals(l) ==
    {l} \cup UNION {Removals(ListRemove(l, l[i])) : i \in 1..Len(l)}

ReturnNone == [type |-> "None"]

NoCall == <<"import", "None">>

\* The registry of the import, or what remove_token calls have left of it;
\* calls counts the calls followed from there.
InitRegistry ==
    /\ token_types \in Removals(DefaultTokenTypes)
    /\ pc = "import"
    /\ arg = "None"
    /\ ret = ReturnNone
    /\ prev = NoCall
    /\ snapshot = token_types
    /\ calls = 0

\* add_token(token_cls)
add_token(token_cls) ==
    /\ calls < MaxCalls
    /\ calls' = calls + 1
    /\ token_types' = ListInsert(token_types, 1, token_cls)
    /\ snapshot' = token_types
    /\ pc' = "add_token"
    /\ arg' = token_cls
    /\ ret' = ReturnNone
    /\ prev' = <<pc, arg>>

\* remove_token(token_cls), token_cls registered
remove_token(token_cls) ==
    /\ calls < MaxCalls
    /\ calls' = calls + 1
    /\ Contains(token_types, token_cls)
    /\ token_types' = ListRemove(token_types, token_cls)
    /\ pc' = "remove_token"
    /\ arg' = token_cls
    /\ ret' = ReturnNone
    /\ prev' = <<pc, arg>>
    /\ UNCHANGED snapshot

\* remove_token(token_cls), token_cls not registered: list.remove raises
\* and the list is as it was
remove_token_absent(token_cls) ==
    /\ calls < MaxCalls
    /\ calls' = calls + 1
    /\ ~Contains(token_types, token_cls)
    /\ pc' = "remove_token"
    /\ arg' = token_cls
    /\ ret' = Raise("ValueError")
    /\ prev' = <<pc, arg>>
    /\ UNCHANGED <<token_types, snapshot>>

AddToken == \E c \in Registered : add_token(c)

RemoveToken == \E c \in TokenClasses : remove_token(c)

RemoveTokenAbsent == \E c \in TokenClasses : remove_token_absent(c)

Next == AddToken \/ RemoveToken \/ RemoveTokenAbsent

Spec == InitRegistry /\ [][Next]_vars

\* l without the element at Python index i
Without(l, i) == SubSeq(l, 1, i) \o From(l, i + 1)

\* remove_token(T) was called right after add_token(T).
AddedThenRemoved ==
    pc = "remove_token" /\ prev = <<"add_token", arg>>

\* C2, round trip: after add_token(T) immediately followed by
\* remove_token(T) the registry is, element for element, the registry
\* the add_token call found.
RoundTrip == AddedThenRemoved => ~IsError(ret) /\ token_types = snapshot

\* C2 as claimed: the round trip, and after every add_token(T) the class T
\* is at Python index 1 and the rest of the registry is the registry the
\* call found, in its order.
C2_AsClaimed ==
    /\ RoundTrip
    /\ pc = "add_token" =>
          /\ Len(token_types) > 1
          /\ token_types[2] = arg
          /\ Without(token_types, 1) = snapshot

\* C2 as amended: the round trip, and after every add_token(T) the class T
\* is at Python index 1 when the registry the call found was not empty and
\* at index 0 when it was; the rest of the registry is the registry the
\* call found, in its order.
C2_RoundTripAndPlacement ==
    /\ RoundTrip
    /\ pc = "add_token" =>
          LET at == IF snapshot = <<>> THEN 0 ELSE 1
          IN  /\ Len(token_types) = Len(snapshot) + 1
              /\ token_types[at + 1] = arg
              /\ Without(token_types, at) = snapshot

\* A class already registered further down the list was added, then removed.
C2_Witness ==
    /\ AddedThenRemoved
    /\ \E i \in 3..Len(snapshot) : snapshot[i] = arg
    /\ token_types = snapshot

-----------------------------------------------------------------------------
(* The token classes.  A leaf's children are what span_token.tokenize_inner *)
(* makes of its text; the model keeps that text as the token's content.    *)

\* Heading.match(lines)
HeadingMatch(lines) ==
    \/ /\ Len(lines) = 1
       /\ StartsWith(lines[1], <<"#">>)
       /\ Find(lines[1], <<"#", " ">>) # -1
    \/ /\ Len(lines) > 1
       /\ \/ StartsWith(lines[Len(lines)], <<"-", "-", "-">>)
          \/ StartsWith(lines[Len(lines)], <<"=", "=", "=">>)

\* Heading(lines).  A setext underline that starts with neither = nor -
\* leaves level unset: None.
Heading(lines) ==
    IF Len(lines) = 1
    THEN LET parts == Split1(lines[1], <<"#", " ">>)
         IN  IF Len(parts) # 2 THEN Raise("ValueError")
             ELSE [type |-> "Heading",
                   level |-> Len(parts[1]) + 1,
                   content |-> Strip(Split1(parts[2], <<" ", "#">>)[1])]
    ELSE LET last == lines[Len(lines)]
         IN  IF Len(lines) = 0 \/ Len(last) = 0 THEN Raise("IndexError")
             ELSE [type |-> "Heading",
                   level |-> IF last[1] = "=" THEN 1
                             ELSE IF last[1] = "-" THEN 2 ELSE None,
                   content |-> Join(<<" ">>,
                       [i \in 1..(Len(lines) - 1) |-> Strip(lines[i])])]

\* Quote.match(lines)
QuoteMatch(lines) == StartsWith(lines[1], <<">", " ">>)

\* The lines Quote(lines) hands to tokenize: each without its "> " prefix.
QuoteContent(lines) ==
    [i \in 1..Len(lines) |->
        IF StartsWith(lines[i], <<">", " ">>) THEN From(lines[i], 2)
        ELSE lines[i]]

\* Paragraph(lines)
Paragraph(lines) ==
    [type |-> "Paragraph",
     content |-> Strip(Replace(Join(<<>>, lines), "\n", " "))]

\* The backquote character, which a TLA+ string cannot hold.
Backquote == "BACKQUOTE"

Fence == <<Backquote, Backquote, Backquote>>

\* BlockCode.match(lines)
BlockCodeMatch(lines) ==
    \/ /\ StartsWith(lines[1], Fence)
       /\ lines[Len(lines)] = Fence \o <<"\n">>
    \/ \A i \in 1..Len(lines) : StartsWith(lines[i], FourSpaces)

\* BlockCode(lines)
BlockCode(lines) ==
    IF StartsWith(lines[1], Fence)
    THEN [type |-> "BlockCode",
          language |-> From(Strip(lines[1]), 3),
          content |-> Join(<<>>, SubSeq(lines, 2, Len(lines) - 1))]
    ELSE [type |-> "BlockCode",
          language |-> <<>>,
          content |-> Join(<<>>, [i \in 1..Len(lines) |-> From(lines[i], 4)])]

\* Separator._acceptable_patterns
AcceptablePatterns ==
    {<<"-", "-", "-", "\n">>, <<"*", " ", "*", " ", "*", "\n">>,
     <<"*", "*", "*", "\n">>, <<"=", "=", "=", "\n">>}

\* Separator.match(lines)
SeparatorMatch(lines) == Len(lines) = 1 /\ lines[1] \in AcceptablePatterns

\* Separator(lines)
Separator(lines) == [type |-> "Separator", lines |-> lines]

\* List.has_valid_leader(line)
has_valid_leader(line) ==
    \/ StartsWith(line, <<"+", " ">>)
    \/ StartsWith(line, <<"-", " ">>)
    \/ StartsWith(line, <<"*", " ">>)
    \/ IsDigit(ButLast(Split1(line, <<" ">>)[1]))

\* List.match(lines)
ListMatch(lines) == has_valid_leader(Strip(lines[1]))

\* ListItem(lines)
ListItem(lines) ==
    LET line == Join(<<" ">>, [i \in 1..Len(lines) |-> Strip(lines[i])])
        parts == Split1(line, <<" ">>)
    IN  [type |-> "ListItem",
         content |-> IF Len(parts) = 2 THEN Strip(parts[2]) ELSE <<>>]

\* A clear_buffer that yields the buffer and does not clear it.
clear_buffer_kept(s) ==
    IF s.line_buffer = <<>> THEN s
    ELSE [s EXCEPT !.nested = FALSE,
                   !.flushed = Append(@,
                       [nested |-> s.nested, lines |-> s.line_buffer])]

\* clear_buffer() in List.build_list: s is the generator's state, its
\* line_buffer, its nested flag and the buffers it has flushed so far.
clear_buffer(s) ==
    IF s.line_buffer = <<>> THEN s
    ELSE [line_buffer |-> <<>>,
          nested |-> FALSE,
          flushed |-> Append(s.flushed,
              [nested |-> s.nested, lines |-> s.line_buffer])]

\* A loop turn that flushes before every indented leader line, nested or
\* not.
BuildListStepAlwaysFlushing(s, line) ==
    IF has_valid_leader(line)
    THEN LET c == clear_buffer(s)
         IN  [c EXCEPT !.line_buffer = Append(@, line)]
    ELSE IF StartsWith(line, FourSpaces)
    THEN LET destemmed == From(line, 4)
         IN  IF has_valid_leader(destemmed)
             THEN LET c == clear_buffer(s)
                  IN  [c EXCEPT !.nested = TRUE,
                                !.line_buffer = Append(@, destemmed)]
             ELSE [s EXCEPT !.line_buffer = Append(@, destemmed)]
    ELSE [s EXCEPT !.line_buffer = Append(@, line)]

\* One turn of the for loop of List.build_list.
BuildListStep(s, line) ==
    IF has_valid_leader(line)
    THEN LET c == clear_buffer(s)
         IN  [c EXCEPT !.line_buffer = Append(@, line)]
    ELSE IF StartsWith(line, FourSpaces)
    THEN LET destemmed == From(line, 4)
         IN  IF has_valid_leader(destemmed)
             THEN LET c == IF ~s.nested THEN clear_buffer(s) ELSE s
                  IN  [c EXCEPT !.nested = TRUE,
                                !.line_buffer = Append(@, destemmed)]
             ELSE [s EXCEPT !.line_buffer = Append(@, destemmed)]
    ELSE [s EXCEPT !.line_buffer = Append(@, line)]

RECURSIVE BuildListLoop(_, _)
BuildListLoop(s, lines) ==
    IF lines = <<>> THEN s
    ELSE BuildListLoop(BuildListStep(s, Head(lines)), Tail(lines))

\* The buffers List.build_list(lines) flushes, in the order it flushes
\* them, each with the nested flag it was flushed under.
Flushed(lines) ==
    clear_buffer(BuildListLoop(
        [line_buffer |-> <<>>, nested |-> FALSE, flushed |-> <<>>],
        lines)).flushed

RECURSIVE List(_)

\* List.build_list(lines): a List of each buffer flushed as nested, a
\* ListItem of each other one
build_list(lines) ==
    LET f == Flushed(lines)
    IN  [i \in 1..Len(f) |->
            IF f[i].nested THEN List(f[i].lines) ELSE ListItem(f[i].lines)]

\* List(lines)
List(lines) ==
    IF Len(lines) = 0 THEN Raise("IndexError")
    ELSE LET leader == Split1(lines[1], <<" ">>)[1]
         IN  [type |-> "List",
              children |-> build_list(lines),
              start |-> IF IsDigit(ButLast(leader))
                        THEN ParseInt(ButLast(leader)) ELSE None]

\* TableCell(content, align)
TableCell(content, align) ==
    [type |-> "TableCell", align |-> align, content |-> content]

\* Consuming TableRow(line, row_align).children: zip_longest pairs the cells
\* with the alignments and fills the shorter side with None; cell.strip()
\* of a filled-in cell raises AttributeError.
TableRowChildren(cells, row_align) ==
    [i \in 1..Max({Len(cells), Len(row_align)}) |->
        IF i > Len(cells) THEN Raise("AttributeError")
        ELSE TableCell(Strip(cells[i]),
                       IF i > Len(row_align) THEN None ELSE row_align[i])]

\* TableRow(line, row_align)
TableRow(line, row_align) ==
    [type |-> "TableRow",
     row_align |-> row_align,
     children |-> TableRowChildren(Split(Inner(line), <<"|">>), row_align)]

\* Table.split_delimiter(delimiter)
split_delimiter(delimiter) ==
    LET columns == Split(Inner(delimiter), <<"|">>)
    IN  [i \in 1..Len(columns) |-> Strip(columns[i])]

\* Table.parse_align(column): None is left, 0 is center, 1 is right
parse_align(column) ==
    IF /\ SubSeq(column, 1, Min({4, Len(column)})) = <<":", "-", "-", "-">>
       /\ Last4(column) = <<"-", "-", "-", ":">>
    THEN 0
    ELSE IF Last4(column) = <<"-", "-", "-", ":">> THEN 1
    ELSE None

\* Table.match(lines) raises IndexError: it reads line[0] and line[-2] of a
\* line too short to have them.
TableMatchRaises(lines) ==
    \E i \in 1..Len(lines) :
        /\ \A j \in 1..(i - 1) :
              lines[j][1] = "|" /\ lines[j][Len(lines[j]) - 1] = "|"
        /\ \/ Len(lines[i]) = 0
           \/ Len(lines[i]) = 1 /\ lines[i][1] = "|"

\* Table.match(lines), where it does not raise
TableMatch(lines) ==
    \A i \in 1..Len(lines) :
        lines[i][1] = "|" /\ lines[i][Len(lines[i]) - 1] = "|"

\* Table(lines)
Table(lines) ==
    IF Len(lines) < 2 THEN Raise("IndexError")
    ELSE LET has_header == Find(lines[2], <<"-", "-", "-">>) # -1
             delimiter == split_delimiter(lines[2])
             column_align ==
                 IF has_header
                 THEN [i \in 1..Len(delimiter) |-> parse_align(delimiter[i])]
                 ELSE <<None>>
             rows == IF has_header THEN <<lines[1]>> \o From(lines, 2)
                     ELSE lines
         IN  [type |-> "Table",
              has_header |-> has_header,
              column_align |-> column_align,
              children |->
                  [i \in 1..Len(rows) |-> TableRow(rows[i], column_align)]]

\* FootnoteEntry(line)
FootnoteEntry(line) ==
    LET parts == Split(Strip(line), <<"]", ":">>)
    IN  IF Len(parts) # 2 THEN Raise("ValueError")
        ELSE [type |-> "FootnoteEntry",
              key |-> From(parts[1], 1),
              value |-> Strip(parts[2])]

\* FootnoteBlock.match(lines)
FootnoteBlockMatch(lines) ==
    \A i \in 1..Len(lines) :
        LET content == Strip(lines[i])
        IN  StartsWith(content, <<"[">>) /\ Find(content, <<"]", ":">>) # -1

\* FootnoteBlock(lines): the list comprehension raises what its first
\* failing FootnoteEntry raises
FootnoteBlock(lines) ==
    LET entries == [i \in 1..Len(lines) |-> FootnoteEntry(lines[i])]
    IN  IF \E i \in 1..Len(entries) : IsError(entries[i])
        THEN Raise("ValueError")
        ELSE [type |-> "FootnoteBlock", children |-> entries]

-----------------------------------------------------------------------------
(* Dispatch: tokenize, Quote and Document *)

\* cls.match(lines) raises
MatchRaises(cls, lines) == cls = "Table" /\ TableMatchRaises(lines)

\* cls.match(lines), where it does not raise; a class the module does not
\* define matches nothing
Match(cls, lines) ==
    CASE cls = "Heading" -> HeadingMatch(lines)
      [] cls = "Quote" -> QuoteMatch(lines)
      [] cls = "BlockCode" -> BlockCodeMatch(lines)
      [] cls = "Separator" -> SeparatorMatch(lines)
      [] cls = "List" -> ListMatch(lines)
      [] cls = "Table" -> TableMatch(lines)
      [] cls = "FootnoteBlock" -> FootnoteBlockMatch(lines)
      [] OTHER -> FALSE

BlankLine == <<"\n">>

\* block_tokenizer.tokenize's line buffer: the maximal runs of lines
\* between blank lines, in order.
RECURSIVE RunsOf(_)
RunsOf(lines) ==
    IF lines = <<>> THEN <<>>
    ELSE IF Head(lines) = BlankLine THEN RunsOf(Tail(lines))
    ELSE LET blanks == {i \in 1..Len(lines) : lines[i] = BlankLine}
             end == IF blanks = {} THEN Len(lines) ELSE Min(blanks) - 1
         IN  <<SubSeq(lines, 1, end)>> \o RunsOf(From(lines, end))

\* dict[key] = value, the dict a set of <<key, value>> pairs
Store(dict, key, value) ==
    {p \in dict : p[1] # key} \cup {<<key, value>>}

RECURSIVE StoreAll(_, _)
StoreAll(dict, entries) ==
    IF entries = <<>> THEN dict
    ELSE StoreAll(Store(dict, Head(entries).key, Head(entries).value),
                  Tail(entries))

RECURSIVE Quote(_)
RECURSIVE tokenize(_, _)

\* token_type(line_buffer)
Construct(cls, lines) ==
    CASE cls = "Heading" -> Heading(lines)
      [] cls = "Quote" -> Quote(lines)
      [] cls = "BlockCode" -> BlockCode(lines)
      [] cls = "Separator" -> Separator(lines)
      [] cls = "List" -> List(lines)
      [] cls = "Table" -> Table(lines)
      [] cls = "FootnoteBlock" -> FootnoteBlock(lines)

\* block_tokenizer's choice for one run: the first class of types whose
\* match accepts the run builds it, the fallback builds a run none accepts.
MatchForToken(lines, types) ==
    LET hits == {i \in 1..Len(types) :
                    MatchRaises(types[i], lines) \/ Match(types[i], lines)}
    IN  IF hits = {} THEN Paragraph(lines)
        ELSE IF MatchRaises(types[Min(hits)], lines) THEN Raise("IndexError")
        ELSE Construct(types[Min(hits)], lines)

\* block_tokenizer.tokenize(lines, types, Paragraph, root), consumed: the
\* tokens of the runs in order, and the footnotes of the FootnoteBlocks
\* among them, stored in root when a root is given; the exception of the
\* first run whose match or constructor raises.
RECURSIVE TokenizeRuns(_, _, _, _)
TokenizeRuns(runs, types, root, done) ==
    IF runs = <<>> THEN done
    ELSE LET token == MatchForToken(Head(runs), types)
         IN  IF IsError(token) THEN token
             ELSE TokenizeRuns(Tail(runs), types, root,
                      [type |-> "list",
                       items |-> Append(done.items, token),
                       footnotes |->
                           IF root /\ token.type = "FootnoteBlock"
                           THEN StoreAll(done.footnotes, token.children)
                           ELSE done.footnotes])

\* tokenize(lines, root): root is whether a Document is passed as root
tokenize(lines, root) ==
    TokenizeRuns(RunsOf(lines), token_types, root,
                 [type |-> "list", items |-> <<>>, footnotes |-> {}])

\* Quote(lines): BlockToken.__init__ calls tokenize(content), with no root.
\* children is what consuming it yields, tokens or an exception.
Quote(lines) ==
    [type |-> "Quote", children |-> tokenize(QuoteContent(lines), FALSE)]

\* Document(lines)
Document(lines) ==
    LET children == tokenize(lines, TRUE)
    IN  IF IsError(children) THEN children
        ELSE [type |-> "Document",
              footnotes |-> children.footnotes,
              children |-> children.items]

\* The longest document.
MaxDocLines == 3

\* The lines of the documents.
DocLines ==
    {<<"#", " ", "a", "\n">>,
     <<">", " ", "a", "\n">>,
     <<">", " ", "[", "c", "]", ":", " ", "d", "\n">>,
     <<"[", "a", "]", ":", " ", "b", "\n">>,
     FourSpaces \o <<"-", " ", "a", "\n">>,
     FourSpaces \o <<"[", "a", "]", ":", " ", "b", "\n">>,
     <<"*", " ", "*", " ", "*", "\n">>,
     <<"-", " ", "a", "\n">>,
     <<"-", "-", "-", "\n">>,
     <<"|", " ", "a", " ", "|", "\n">>,
     <<"a", "\n">>,
     BlankLine}

\* A last line that does not end with a newline.
Unterminated == {<<"|">>, <<"a">>}

\* The documents: every line ends with a newline, but for the last, which
\* may not.
DocInputs ==
    LET whole == SeqUpTo(DocLines, MaxDocLines)
    IN  whole \cup
        {Append(d, u) : d \in {w \in whole : Len(w) < MaxDocLines},
                        u \in Unterminated}

InitDocument ==
    /\ arg \in DocInputs
    /\ pc = "start"
    /\ ret = ReturnNone
    /\ token_types = DefaultTokenTypes
    /\ prev = NoCall
    /\ snapshot = DefaultTokenTypes
    /\ calls = 0

\* Document(arg)
DocumentInit ==
    /\ pc = "start"
    /\ pc' = "Document"
    /\ ret' = Document(arg)
    /\ UNCHANGED <<arg, token_types, prev, snapshot, calls>>

NextDocument == DocumentInit

SpecDocument == InitDocument /\ [][NextDocument]_vars

\* The order of C1.
PriorityOrder ==
    <<"Heading", "Quote", "BlockCode", "Separator", "List", "Table",
      "FootnoteBlock">>

\* The classes of PriorityOrder whose match accepts the run.
Accepting(lines) ==
    {i \in 1..Len(PriorityOrder) :
        /\ ~MatchRaises(PriorityOrder[i], lines)
        /\ Match(PriorityOrder[i], lines)}

RECURSIVE Entries(_)
Entries(token) ==
    IF token.type = "FootnoteBlock"
    THEN {token.children[i] : i \in 1..Len(token.children)}
    ELSE IF token.type = "Quote" /\ ~IsError(token.children)
    THEN UNION {Entries(token.children.items[i]) :
                    i \in 1..Len(token.children.items)}
    ELSE {}

\* C3, footnote registration: when Document(lines) has returned, footnotes
\* maps key to value for every FootnoteEntry of the tree, those of a
\* FootnoteBlock under a Quote included.
C3_FootnoteRegistration ==
    (pc = "Document" /\ ~IsError(ret)) =>
        \A i \in 1..Len(ret.children) :
            \A e \in Entries(ret.children[i]) :
                <<e.key, e.value>> \in ret.footnotes

-----------------------------------------------------------------------------
(* List.build_list and List(lines) on runs of list lines *)

\* The longest run of lines handed to List.build_list.
MaxListLines == 3

Indents == {<<>>, <<" ">>, FourSpaces, FourSpaces \o FourSpaces}

Leaders == {<<>>, <<"-", " ">>, <<"1", "2", ".", " ">>}

\* The lines of the runs: an indent, a leader or none, a text.
ListLines == {i \o l \o <<"a", "\n">> : i \in Indents, l \in Leaders}

InitList ==
    /\ arg \in SeqUpTo(ListLines, MaxListLines)
    /\ pc = "start"
    /\ ret = ReturnNone
    /\ token_types = DefaultTokenTypes
    /\ prev = NoCall
    /\ snapshot = DefaultTokenTypes
    /\ calls = 0

\* list(List.build_list(arg)), with the buffers it flushed
BuildList ==
    /\ pc = "start"
    /\ pc' = "build_list"
    /\ ret' = [type |-> "list",
               flushed |-> Flushed(arg),
               items |-> build_list(arg)]
    /\ UNCHANGED <<arg, token_types, prev, snapshot, calls>>

\* List(arg) for a run List.match accepts
ListInit ==
    /\ pc = "start"
    /\ arg # <<>>
    /\ ListMatch(arg)
    /\ pc' = "List"
    /\ ret' = List(arg)
    /\ UNCHANGED <<arg, token_types, prev, snapshot, calls>>

NextList == BuildList \/ ListInit

SpecList == InitList /\ [][NextList]_vars

\* The line as build_list appends it: without its four-space indent.
Destemmed(line) ==
    IF StartsWith(line, FourSpaces) THEN From(line, 4) ELSE line

RECURSIVE Concat(_)
Concat(ss) == IF ss = <<>> THEN <<>> ELSE Head(ss) \o Concat(Tail(ss))

\* C4, line partition: build_list flushes only non-empty buffers, one per
\* emitted token, and the flushed buffers, concatenated in the order of
\* emission, are the input lines in input order, each without its
\* four-space indent if it had one: no line is lost and none is duplicated.
C4_LinePartition ==
    pc = "build_list" =>
        /\ \A i \in 1..Len(ret.flushed) : ret.flushed[i].lines # <<>>
        /\ Len(ret.items) = Len(ret.flushed)
        /\ Concat([i \in 1..Len(ret.flushed) |-> ret.flushed[i].lines])
             = [i \in 1..Len(arg) |-> Destemmed(arg[i])]

\* Three lines went into two buffers, one of them an indented line.
C4_Witness ==
    /\ pc = "build_list"
    /\ Len(arg) = 3
    /\ Len(ret.flushed) = 2
    /\ \E i \in 1..3 : StartsWith(arg[i], FourSpaces)

TopLevelLeader(line) == has_valid_leader(line)

IndentedLeader(line) ==
    StartsWith(line, FourSpaces) /\ has_valid_leader(From(line, 4))

\* The input of C5: a first line with a valid leader, and every line a
\* top-level leader line or an indented leader line.
Grouped(lines) ==
    /\ lines # <<>>
    /\ has_valid_leader(lines[1])
    /\ \A i \in 1..Len(lines) :
          TopLevelLeader(lines[i]) \/ IndentedLeader(lines[i])

\* Line i opens a token: a top-level leader line, or the first line of a
\* maximal run of indented leader lines.
Opens(lines, i) ==
    \/ TopLevelLeader(lines[i])
    \/ i = 1
    \/ TopLevelLeader(lines[i - 1])

\* The position, among the emitted tokens, of the token line i belongs to.
TokenOf(lines, i) == Cardinality({j \in 1..i : Opens(lines, j)})

\* C5, nested list grouping: on such an input build_list emits, in input
\* order, one ListItem per top-level leader line and one nested List per
\* maximal run of indented leader lines, that List holding one ListItem per
\* line of the run.
C5_NestedGrouping ==
    (pc = "build_list" /\ Grouped(arg)) =>
        /\ Len(ret.items) = TokenOf(arg, Len(arg))
        /\ \A i \in 1..Len(arg) :
              LET token == ret.items[TokenOf(arg, i)]
                  run == {j \in 1..Len(arg) : TokenOf(arg, j) = TokenOf(arg, i)}
              IN  IF TopLevelLeader(arg[i])
                  THEN token.type = "ListItem"
                  ELSE /\ token.type = "List"
                       /\ Len(token.children) = Cardinality(run)
                       /\ \A k \in 1..Len(token.children) :
                             token.children[k].type = "ListItem"

\* A top-level line, an indented line, a top-level line: ListItem,
\* List[ListItem], ListItem.
C5_Witness ==
    /\ pc = "build_list"
    /\ Grouped(arg)
    /\ Len(arg) = 3
    /\ TopLevelLeader(arg[1]) /\ IndentedLeader(arg[2]) /\ TopLevelLeader(arg[3])
    /\ Len(ret.items) = 3
    /\ ret.items[2].type = "List"
    /\ Len(ret.items[2].children) = 1

\* The leading marker of the line, as List.match reads it.
Marker(line) == Split1(Strip(line), <<" ">>)[1]

\* C6, list numbering: for a run List.match accepts, start is the numeric
\* value of the leading marker of the first line if that marker is numeric,
\* and is undefined if it is not, whether or not the line carries leading
\* whitespace.
C6_ListNumbering ==
    (pc = "List" /\ ~IsError(ret)) =>
        IF IsDigit(ButLast(Marker(arg[1])))
        THEN ret.start = ParseInt(ButLast(Marker(arg[1])))
        ELSE ret.start = None

-----------------------------------------------------------------------------
(* The constructors of Heading, Table, TableRow and FootnoteBlock *)

\* The longest heading line, its newline not counted.
MaxHeadingLen == 4

\* The longest table.
MaxTableLines == 2

\* The most cells of a table line.
MaxCells == 2

\* The most alignments handed to a TableRow.
MaxAligns == 3

\* The longest footnote block.
MaxFootnoteLines == 2

\* One ATX line, or a text line over a setext underline.
HeadingRuns ==
    {<<body \o <<"\n">>>> : body \in SeqUpTo({"#", " ", "a"}, MaxHeadingLen)}
    \cup {<<<<"a", "\n">>, <<"-", "-", "-", "\n">>>>,
          <<<<"a", "\n">>, <<"=", "=", "=", "\n">>>>}

CellTexts ==
    {<<" ", "a", " ">>, <<" ", "-", "-", "-", " ">>,
     <<" ", "-", "-", "-", ":", " ">>, <<":", "-", "-", "-", ":">>}

\* | cell | ... | cell |
TableLines ==
    {<<"|">> \o Join(<<"|">>, cells) \o <<"|", "\n">> :
        cells \in SeqUpTo(CellTexts, MaxCells) \ {<<>>}}

TableRuns == SeqUpTo(TableLines, MaxTableLines) \ {<<>>}

\* The alignment sequences: what Table.parse_align returns, in any number.
RowAligns == SeqUpTo({None, 0, 1}, MaxAligns) \ {<<>>}

FootnoteLines ==
    {<<"[", "a", "]", ":", " ", "b", "\n">>,
     <<" ", "[", "k", "]", ":", "v", "\n">>,
     <<"[", "a", "]", ":", "\n">>,
     <<"[", "a", "]", ":", " ", "b", "]", ":", " ", "c", "\n">>}

FootnoteRuns == SeqUpTo(FootnoteLines, MaxFootnoteLines) \ {<<>>}

InitBlocks ==
    /\ arg \in HeadingRuns \cup TableRuns \cup FootnoteRuns
    /\ pc = "start"
    /\ ret = ReturnNone
    /\ token_types = DefaultTokenTypes
    /\ prev = NoCall
    /\ snapshot = DefaultTokenTypes
    /\ calls = 0

\* Heading(arg) for a run Heading.match accepts
HeadingInit ==
    /\ pc = "start"
    /\ HeadingMatch(arg)
    /\ pc' = "Heading"
    /\ ret' = Heading(arg)
    /\ UNCHANGED <<arg, token_types, prev, snapshot, calls>>

\* Table(arg) for a run Table.match accepts
TableInit ==
    /\ pc = "start"
    /\ ~TableMatchRaises(arg)
    /\ TableMatch(arg)
    /\ pc' = "Table"
    /\ ret' = Table(arg)
    /\ UNCHANGED <<arg, token_types, prev, snapshot, calls>>

\* TableRow(line, row_align) for a table line and any alignments, its
\* children consumed
TableRowInit ==
    /\ pc = "start"
    /\ arg \in TableRuns
    /\ Len(arg) = 1
    /\ \E row_align \in RowAligns :
          ret' = TableRow(arg[1], row_align)
    /\ pc' = "TableRow"
    /\ UNCHANGED <<arg, token_types, prev, snapshot, calls>>

\* FootnoteBlock(arg) for a run FootnoteBlock.match accepts
FootnoteBlockInit ==
    /\ pc = "start"
    /\ FootnoteBlockMatch(arg)
    /\ pc' = "FootnoteBlock"
    /\ ret' = FootnoteBlock(arg)
    /\ UNCHANGED <<arg, token_types, prev, snapshot, calls>>

NextBlocks == HeadingInit \/ TableInit \/ TableRowInit \/ FootnoteBlockInit

SpecBlocks == InitBlocks /\ [][NextBlocks]_vars

\* The number of consecutive # characters the line starts with.
LeadingHashes(line) ==
    Max({n \in 0..Len(line) : \A i \in 1..n : line[i] = "#"})

\* C7, ATX heading level: the Heading of a single line Heading.match
\* accepts has as its level the number of consecutive # characters the
\* line starts with.
C7_AtxLevel ==
    (pc = "Heading" /\ Len(arg) = 1) =>
        ~IsError(ret) /\ ret.level = LeadingHashes(arg[1])

\* The |-delimited segments of a table line.
Segments(line) == Split(Inner(line), <<"|">>)

\* C8, cell and alignment counts: building a TableRow and consuming its
\* cells raises nothing, whatever the numbers of cells and of alignments;
\* the row has one cell per segment of the line, a cell with an alignment
\* at its position has that alignment and a cell beyond the alignments has
\* none.
C8_RowNeverFails ==
    pc = "TableRow" =>
        /\ \A i \in 1..Len(ret.children) : ~IsError(ret.children[i])
        /\ Len(ret.children) = Len(Segments(arg[1]))
        /\ \A i \in 1..Len(ret.children) :
              ret.children[i].align =
                  IF i > Len(ret.row_align) THEN None ELSE ret.row_align[i]

\* C9, table without a delimiter row: the Table of a run Table.match
\* accepts whose second line is no alignment delimiter, or that has no
\* second line, is built, with has_header false, column_align the single
\* default entry and one TableRow per line.
C9_NoDelimiterRow ==
    (/\ pc = "Table"
     /\ \/ Len(arg) = 1
        \/ Find(arg[2], <<"-", "-", "-">>) = -1) =>
        /\ ~IsError(ret)
        /\ ret.has_header = FALSE
        /\ ret.column_align = <<None>>
        /\ Len(ret.children) = Len(arg)

\* C10, footnote entry split: the FootnoteBlock of a run
\* FootnoteBlock.match accepts is built and has one FootnoteEntry per line,
\* its key the text between the leading [ and the first ]: of the trimmed
\* line and its value the trimmed text after that ]:, whatever that text
\* holds.
C10_EntrySplit ==
    pc = "FootnoteBlock" =>
        /\ ~IsError(ret)
        /\ Len(ret.children) = Len(arg)
        /\ \A i \in 1..Len(arg) :
              LET content == Strip(arg[i])
                  at == Find(content, <<"]", ":">>)
              IN  /\ ret.children[i].key = SubSeq(content, 2, at)
                  /\ ret.children[i].value = Strip(From(content, at + 2))

=============================================================================
